---- MODULE Spec2Model ----
(***************************************************************************)
(* sshecret: a wrapper around ssh(1) that keeps one ssh-agent(1) per       *)
(* identity file.  The model covers src/sshecret.py: command-line parsing, *)
(* get_host, SSHKey (config lookup, fingerprint, check_key_exists),        *)
(* SSHSock (get_sock_path, create, _add_key), run_ssh and main.            *)
(*                                                                         *)
(* Strings that the code takes apart (command-line tokens, host names) are *)
(* sequences of one-character strings.  Paths are sequences of path        *)
(* components.  The external programs (ssh-agent, ssh-add, ssh-keygen,     *)
(* ssh) are the environment: what they do to the agents is modelled from   *)
(* their command-line contracts, their failures are nondeterministic.      *)
(* Agents are never torn down (the program never does, section 5).         *)
(***************************************************************************)
EXTENDS Integers, Sequences, FiniteSets, TLC

VARIABLES
    environ,     \* os.environ of the user's session: variable name -> value
    fs,          \* the file system at the candidate config paths: path -> kind
    agents,      \* socket paths with a live ssh-agent bound (the socket file exists)
    loaded,      \* <<socket path, identity file>>: keys held by the agent at that socket
    proc,        \* per invocation: position, locals of main/create/_add_key, outcome
    started,     \* number of invocations launched so far
    agentBinds,  \* history: socket path -> number of agents that ever bound it
    keyAddLog,   \* history: <<identity file, socket path>> of every ssh-add <file> run
    createdOk    \* history: <<identity file, socket path>> of every create() that returned a path

vars == <<environ, fs, agents, loaded, proc, started, agentBinds, keyAddLog, createdOk>>

\* ------------------------------------------------------------------ bounds
\* Invocations launched in one behaviour (two may run at once).
MaxInvocations == 3
\* Longest arbitrary string fed to get_host in SpecHost.
MaxRawLen == 3
\* Longest bare host name of the decorated forms in SpecHost.
MaxHostLen == 2

Procs == {1, 2}

\* Python's None where a string is expected.
None == "<None>"

\* ----------------------------------------------------------- string helpers
\* s[i..] of a sequence, 1-based.
Drop(s, n) == SubSeq(s, n + 1, Len(s))

\* c in s
Contains(s, c) == \E i \in 1..Len(s) : s[i] = c

\* str.startswith
StartsWith(s, pre) ==
    /\ Len(s) >= Len(pre)
    /\ SubSeq(s, 1, Len(pre)) = pre

\* Index of the first c in s, 0 when absent.
FirstIndex(s, c) ==
    IF Contains(s, c) THEN CHOOSE i \in 1..Len(s) : s[i] = c /\ \A j \in 1..(i - 1) : s[j] # c
    ELSE 0

\* str.split(c): the segments between the occurrences of c.
RECURSIVE Split(_, _)
Split(s, c) ==
    IF ~Contains(s, c) THEN <<s>>
    ELSE LET i == FirstIndex(s, c)
         IN  <<SubSeq(s, 1, i - 1)>> \o Split(Drop(s, i), c)

SCHEME == <<"s", "s", "h", ":", "/", "/">>

\* ------------------------------------------------------------------ get_host
\* Mutant: takes the part before the '@' (index 0 instead of 1).
get_host_user_part(hostname) ==
    LET h1 == IF Contains(hostname, "@") THEN Split(hostname, "@")[1] ELSE hostname
        h2 == IF StartsWith(h1, SCHEME) THEN Drop(h1, Len(SCHEME)) ELSE h1
    IN  IF Contains(h2, ":") THEN Split(h2, ":")[1] ELSE h2

\* get_host: split('@')[1], then the literal ssh:// prefix, then split(':')[0].
get_host(hostname) ==
    LET h1 == IF Contains(hostname, "@") THEN Split(hostname, "@")[2] ELSE hostname
        h2 == IF StartsWith(h1, SCHEME) THEN Drop(h1, Len(SCHEME)) ELSE h1
    IN  IF Contains(h2, ":") THEN Split(h2, ":")[1] ELSE h2

\* ------------------------------------------------------- parse_known_args
SOCKET == <<"-", "-", "s", "o", "c", "k", "e", "t">>

SSH_FLAGS == {"1", "2", "4", "6", "A", "a", "C", "f", "g", "K", "k", "M", "N",
              "n", "q", "s", "T", "t", "V", "X", "x", "Y", "y"}

SSH_ARGS == {"b", "c", "D", "E", "e", "F", "I", "i", "J", "L", "l", "m", "O",
             "o", "p", "Q", "R", "S", "w", "W"}

IsOption(tok) == Len(tok) >= 2 /\ tok[1] = "-"

\* The namespace argparse builds, token by token from position i.  ok is FALSE
\* when argparse exits (a value-taking option without its value).  Combined
\* short flags, abbreviated long options and "--" are not modelled.
RECURSIVE ParseFrom(_, _, _)
ParseFrom(args, i, ns) ==
    IF i > Len(args) THEN ns
    ELSE LET tok == args[i] IN
         IF tok = SOCKET
            THEN ParseFrom(args, i + 1, [ns EXCEPT !.sshecret_print_socket = TRUE])
         ELSE IF IsOption(tok) /\ Len(tok) = 2 /\ tok[2] = "v"
            THEN ParseFrom(args, i + 1, [ns EXCEPT !.verbose = @ + 1])
         ELSE IF IsOption(tok) /\ Len(tok) = 2 /\ tok[2] \in SSH_FLAGS
            THEN ParseFrom(args, i + 1, ns)
         ELSE IF IsOption(tok) /\ tok[2] \in SSH_ARGS
            THEN IF Len(tok) > 2 THEN ParseFrom(args, i + 1, ns)
                 ELSE IF i = Len(args) \/ IsOption(args[i + 1]) THEN [ns EXCEPT !.ok = FALSE]
                 ELSE ParseFrom(args, i + 2, ns)
         ELSE IF IsOption(tok)
            THEN ParseFrom(args, i + 1, ns)            \* unknown: left in `extra`
         ELSE IF ns.hostname = <<None>>
            THEN ParseFrom(args, i + 1, [ns EXCEPT !.hostname = tok])
         ELSE ParseFrom(args, i + 1, ns)               \* command, or `extra`

EmptyNamespace ==
    [ok |-> TRUE, hostname |-> <<None>>, sshecret_print_socket |-> FALSE, verbose |-> 0]

\* parse_known_args: the namespace, ok = FALSE when the required hostname is missing.
parse_known_args(args) ==
    LET ns == ParseFrom(args, 1, EmptyNamespace)
    IN  IF ns.hostname = <<None>> THEN [ns EXCEPT !.ok = FALSE] ELSE ns

\* ------------------------------------------------------------ environment
NonePath == <<None>>

\* os.getenv(name, default)
getenv(env, name, default) == IF name \in DOMAIN env THEN env[name] ELSE default

HomeDir == <<"home", "u">>
OrigAuthSock == <<"tmp", "orig.sock">>
AltConf == <<"etc", "alt_config">>
DefaultConf == HomeDir \o <<".ssh", "config">>
ConfPaths == {DefaultConf, AltConf}
\* The second one needs shell quoting (a space).
RuntimeDirs == {<<"run", "user", "1000">>, <<"tmp", "run dir">>}

EnvValue(name, xdg) ==
    CASE name = "HOME" -> HomeDir
      [] name = "SSH_AUTH_SOCK" -> OrigAuthSock
      [] name = "SSH_CONF_PATH" -> AltConf
      [] name = "XDG_RUNTIME_DIR" -> xdg

\* The sessions the tool is started in: HOME and SSH_AUTH_SOCK set,
\* SSH_CONF_PATH and XDG_RUNTIME_DIR set or not.
Environs ==
    { [name \in {"HOME", "SSH_AUTH_SOCK"} \cup opt |-> EnvValue(name, xdg)] :
        opt \in SUBSET {"SSH_CONF_PATH", "XDG_RUNTIME_DIR"}, xdg \in RuntimeDirs }

FileKinds == {"absent", "dir", "file"}

\* shlex.quote: a string with a character outside [A-Za-z0-9@%+=:,./-] is
\* wrapped in single quotes, any other is returned as it is.
NeedsQuote(path) == \E i \in 1..Len(path) : path[i] = "run dir"
quote(path) == IF NeedsQuote(path) THEN <<"'">> \o path \o <<"'">> ELSE path

\* ------------------------------------------------------------------ SSHKey
ID_A == "~/.ssh/id_a"
ID_B == "~/.ssh/id_b"
IdentityFiles == {ID_A, ID_B}

\* The user's ssh_config as paramiko's lookup(host).get("identityfile")
\* returns it: the IdentityFile entries that apply to the host, in order;
\* <<>> stands for the missing key (None).
SSHConfigLookup(host) ==
    CASE host = <<"h">> -> <<ID_A>>
      [] host = <<"g">> -> <<ID_A, ID_B>>
      [] OTHER -> <<>>

\* SSHKey.__init__: id_file[::-1][0], or None.
IdFile(host) ==
    LET id_file == SSHConfigLookup(host)
    IN  IF id_file # <<>> THEN id_file[Len(id_file)] ELSE None

\* SSHKey._get_ssh_config: the path looked at.
ssh_config_path(env) ==
    LET default == getenv(env, "HOME", NonePath) \o <<".ssh", "config">>
    IN  getenv(env, "SSH_CONF_PATH", default)

\* Mutant: a directory passes.
ConfigFoundExistsOnly(files, path) == files[path] # "absent"

\* SSHKey._get_ssh_config: os.path.exists(path) and os.path.isfile(path).
ConfigFound(files, path) == files[path] # "absent" /\ files[path] = "file"

\* What ssh-keygen -l -f prints as the second field for a key file.
KeyFingerprint(file) ==
    CASE file = ID_A -> "SHA256:aaaa"
      [] file = ID_B -> "SHA256:bbbb"

\* Mutant: the membership test always fails.
KeyNeverInList(fp, out) == FALSE

\* SSHKey.check_key_exists: get_fingerprint() in out.split()
KeyInList(fp, out) == fp \in out

\* ----------------------------------------------------------------- SSHSock
\* hashlib.md5(path).hexdigest(), as a table: the digests of distinct paths
\* are distinct (collisions of MD5 are outside the model).
Md5Hex(text) ==
    CASE text = ID_A -> "c0a1"
      [] text = ID_B -> "c0b2"
      [] OTHER -> "d41d"

\* What get_sock_path raises: None.encode (AttributeError), then
\* os.path.join(None, ...) (TypeError); "" when it returns.
SockPathError(env, file) ==
    IF file = None THEN "AttributeError"
    ELSE IF "XDG_RUNTIME_DIR" \notin DOMAIN env THEN "TypeError"
    ELSE ""

\* Mutant: the digest does not depend on the identity file.
get_sock_path_const(env, file) ==
    getenv(env, "XDG_RUNTIME_DIR", NonePath) \o <<Md5Hex(""), ".sock">>

\* SSHSock.get_sock_path: $XDG_RUNTIME_DIR/<md5 of the identity file path>.sock
get_sock_path(env, file) ==
    getenv(env, "XDG_RUNTIME_DIR", NonePath) \o <<Md5Hex(file), ".sock">>

\* Mutant: the agent's exit status is ignored.
AgentStartIgnored(rc) == FALSE

\* SSHSock.create: check_call raises on a nonzero status (and `if error` after it).
AgentStartFatal(rc) == rc # 0

\* Mutant: the key-add exit status is ignored.
KeyAddIgnored(rc) == FALSE

\* SSHSock._add_key: if proc.returncode: raise OSError
KeyAddFatal(rc) == rc # 0

\* ----------------------------------------------------------------- run_ssh
SSH_BIN == <<"/usr/bin/ssh">>

\* Mutant: the tool's own -v is filtered out of the arguments.
ssh_argv_filtered(args) == <<SSH_BIN>> \o SelectSeq(args, LAMBDA t : t # <<"-", "v">>)

\* run_ssh: ssh = ["/usr/bin/ssh"]; ssh.extend(args)
ssh_argv(args) == <<SSH_BIN>> \o args

EmptyEnv == [name \in {} |-> NonePath]

\* run_ssh: env = {} and, with a socket, a copy of os.environ with
\* SSH_AUTH_SOCK set to it.
run_ssh_env(env, sock) ==
    IF sock # NonePath
    THEN [name \in DOMAIN env \cup {"SSH_AUTH_SOCK"} |->
            IF name = "SSH_AUTH_SOCK" THEN sock ELSE env[name]]
    ELSE EmptyEnv

\* ------------------------------------------------------------- invocations
H_A == <<"u", "@", "h", ":", "2">>     \* user@h:2, IdentityFile id_a
H_B == <<"g">>                         \* IdentityFile id_a then id_b
H_N == <<"n">>                         \* no IdentityFile
FLAG_v == <<"-", "v">>
OPT_p == <<"-", "p">>
PORT == <<"2", "2">>
CMD == <<"l", "s">>

\* sys.argv[1:] of the invocations.
ArgvSet ==
    { <<FLAG_v, H_A, CMD>>, <<OPT_p, PORT, H_B>>, <<H_N>>,
      <<SOCKET, H_A>>, <<H_B, SOCKET>>, <<SOCKET, H_N>>, <<>> }

Terminal == {"returned", "raised", "execd"}

\* An invocation before it starts.  exit and image are <<>> until set.
InitProc ==
    [pc |-> "idle", argv |-> <<>>, args |-> EmptyNamespace, host |-> <<>>,
     id_file |-> None, fingerprint |-> None, out |-> {}, sock_file |-> NonePath,
     sock |-> NonePath, cmds |-> <<>>, steps |-> <<>>, stdout |-> <<>>,
     exit |-> <<>>, error |-> "", image |-> <<>>, priorOk |-> FALSE]

\* An uncaught exception (or argparse's exit): the interpreter ends with `code`.
Raised(r, err, code) ==
    [r EXCEPT !.pc = "raised", !.error = err, !.exit = <<code>>]

\* A subprocess of the invocation has run: its exit status, and whether its
\* output had the expected shape.
Ran(r, cmd, rc, output) ==
    [r EXCEPT !.cmds = Append(@, [cmd |-> cmd, rc |-> rc, output |-> output])]

Entered(r, step) == [r EXCEPT !.steps = Append(@, step)]

\* A new invocation of the tool, in a free slot.
Invoke(p) ==
    /\ proc[p].pc \in {"idle"} \cup Terminal
    /\ started < MaxInvocations
    /\ \E a \in ArgvSet :
         proc' = [proc EXCEPT ![p] = [InitProc EXCEPT !.pc = "parse", !.argv = a]]
    /\ started' = started + 1
    /\ UNCHANGED <<environ, fs, agents, loaded, agentBinds, keyAddLog, createdOk>>

\* main: parse_known_args, setup_logging.
ParseArgs(p) ==
    /\ proc[p].pc = "parse"
    /\ LET r == Entered(proc[p], "parse-args")
           ns == parse_known_args(r.argv)
       IN  proc' = [proc EXCEPT ![p] =
              IF ~ns.ok THEN Raised(r, "SystemExit", 2)
              ELSE [r EXCEPT !.pc = "get_host", !.args = ns]]
    /\ UNCHANGED <<environ, fs, agents, loaded, started, agentBinds, keyAddLog, createdOk>>

\* main: host = get_host(args.hostname)
GetHost(p) ==
    /\ proc[p].pc = "get_host"
    /\ LET r == Entered(proc[p], "resolve-hostname")
       IN  proc' = [proc EXCEPT ![p] =
              [r EXCEPT !.pc = "SSHKey", !.host = get_host(r.args.hostname)]]
    /\ UNCHANGED <<environ, fs, agents, loaded, started, agentBinds, keyAddLog, createdOk>>

\* main: SSHKey(host): _get_ssh_config, then the lookup.
NewSSHKey(p) ==
    /\ proc[p].pc = "SSHKey"
    /\ LET r == Entered(proc[p], "resolve-identity")
           path == ssh_config_path(environ)
       IN  proc' = [proc EXCEPT ![p] =
              IF ~ConfigFound(fs, path) THEN Raised(r, "IOError ENOENT", 1)
              ELSE [r EXCEPT !.pc = "main", !.id_file = IdFile(r.host)]]
    /\ UNCHANGED <<environ, fs, agents, loaded, started, agentBinds, keyAddLog, createdOk>>

\* Mutant: --socket is not looked at.
PrintSocketNever(ns) == FALSE

\* main: if args.sshecret_print_socket
PrintSocketAsked(ns) == ns.sshecret_print_socket

\* main: print('SSH_AUTH_SOCK={}'.format(quote(sock.get_sock_path()))); return
PrintSocket(p) ==
    /\ proc[p].pc = "main"
    /\ PrintSocketAsked(proc[p].args)
    /\ LET r == Entered(proc[p], "print-socket")
           err == SockPathError(environ, r.id_file)
       IN  proc' = [proc EXCEPT ![p] =
              IF err # "" THEN Raised(r, err, 1)
              ELSE [r EXCEPT !.pc = "returned", !.exit = <<0>>,
                             !.stdout = <<"SSH_AUTH_SOCK=">> \o quote(get_sock_path(environ, r.id_file))]]
    /\ UNCHANGED <<environ, fs, agents, loaded, started, agentBinds, keyAddLog, createdOk>>

\* SSHSock.create up to the os.path.exists test.
Create(p) ==
    /\ proc[p].pc = "main"
    /\ ~PrintSocketAsked(proc[p].args)
    /\ LET r == Entered(proc[p], "ensure-socket")
           err == SockPathError(environ, r.id_file)
           sock_file == get_sock_path(environ, r.id_file)
       IN  proc' = [proc EXCEPT ![p] =
              IF r.id_file = None THEN [r EXCEPT !.pc = "run_ssh"]
              ELSE IF err # "" THEN Raised(r, err, 1)
              ELSE [r EXCEPT !.pc = IF sock_file \in agents THEN "ssh-add -l" ELSE "ssh-agent",
                             !.sock_file = sock_file,
                             !.priorOk = (\E e \in createdOk : e[1] = r.id_file)]]
    /\ UNCHANGED <<environ, fs, agents, loaded, started, agentBinds, keyAddLog, createdOk>>

\* ssh-agent -a <path>: bind fails on a path that exists; it may fail anyway.
AgentOutcomes(sock_file) == IF sock_file \in agents THEN {1} ELSE {0, 1}

\* SSHSock.create: subprocess.check_call(["/usr/bin/ssh-agent", "-a<sock>"])
StartAgent(p) ==
    /\ proc[p].pc = "ssh-agent"
    /\ \E rc \in AgentOutcomes(proc[p].sock_file) :
         LET r == Ran(proc[p], "ssh-agent", rc, "ok")
             s == r.sock_file
         IN  /\ agents' = IF rc = 0 THEN agents \cup {s} ELSE agents
             /\ agentBinds' = IF rc = 0
                  THEN [x \in DOMAIN agentBinds \cup {s} |->
                          IF x = s THEN (IF s \in DOMAIN agentBinds THEN agentBinds[s] ELSE 0) + 1
                          ELSE agentBinds[x]]
                  ELSE agentBinds
             /\ proc' = [proc EXCEPT ![p] =
                  IF AgentStartFatal(rc) THEN Raised(r, "CalledProcessError", 1)
                  ELSE [r EXCEPT !.pc = "ssh-add -l"]]
    /\ UNCHANGED <<environ, fs, loaded, started, keyAddLog, createdOk>>

\* ssh-add -l against a socket: the fingerprints held and status 0, status 1
\* with "The agent has no identities.", status 2 without an agent.
ListStatus(s) ==
    IF s \notin agents THEN 2
    ELSE IF \E f \in IdentityFiles : <<s, f>> \in loaded THEN 0 ELSE 1

ListOutput(s) ==
    IF s \notin agents THEN {}
    ELSE {KeyFingerprint(f) : f \in {g \in IdentityFiles : <<s, g>> \in loaded}}

\* SSHKey.check_key_exists: Popen(["ssh-add", "-l"]).communicate(); the exit
\* status is not looked at.
ListIdentities(p) ==
    /\ proc[p].pc = "ssh-add -l"
    /\ LET s == proc[p].sock_file
           r == Ran(proc[p], "ssh-add -l", ListStatus(s), "ok")
       IN  proc' = [proc EXCEPT ![p] = [r EXCEPT !.pc = "ssh-keygen", !.out = ListOutput(s)]]
    /\ UNCHANGED <<environ, fs, agents, loaded, started, agentBinds, keyAddLog, createdOk>>

\* ssh-keygen -l -f <file>: the fingerprint line, a nonzero status, or status
\* 0 with output of fewer than two fields.
KeygenOutcomes == {"ok", "nonzero", "garbled"}

\* Mutant: the status of ssh-keygen is not checked (call instead of check_output).
KeygenErrorUnchecked(o) == IF o = "garbled" THEN "IndexError" ELSE ""

\* SSHKey.get_fingerprint: check_output raises CalledProcessError, split()[1]
\* raises IndexError; "" when it returns.
KeygenError(o) ==
    CASE o = "nonzero" -> "CalledProcessError"
      [] o = "garbled" -> "IndexError"
      [] OTHER -> ""

\* SSHKey.get_fingerprint (check_output of ssh-keygen -l -f, split()[1]) and
\* the membership test of check_key_exists; _add_key returns when the key is in.
GetFingerprint(p) ==
    /\ proc[p].pc = "ssh-keygen"
    /\ \E o \in KeygenOutcomes :
         LET r == Ran(proc[p], "ssh-keygen", IF o = "nonzero" THEN 1 ELSE 0,
                      IF o = "garbled" THEN "unexpected" ELSE "ok")
             err == KeygenError(o)
             fp == KeyFingerprint(r.id_file)
             isIn == KeyInList(fp, r.out)
         IN  /\ proc' = [proc EXCEPT ![p] =
                  IF err # "" THEN Raised(r, err, 1)
                  ELSE [r EXCEPT !.fingerprint = fp,
                                 !.pc = IF isIn THEN "run_ssh" ELSE "ssh-add",
                                 !.sock = IF isIn THEN r.sock_file ELSE @]]
             /\ createdOk' = IF err = "" /\ isIn
                  THEN createdOk \cup {<<r.id_file, r.sock_file>>} ELSE createdOk
    /\ UNCHANGED <<environ, fs, agents, loaded, started, agentBinds, keyAddLog>>

\* ssh-add <file> against a socket: status 2 without an agent, else the key
\* is added (status 0) or not (status 1: unreadable key, wrong passphrase).
KeyAddOutcomes(s) == IF s \in agents THEN {0, 1} ELSE {2}

\* SSHSock._add_key: Popen(["/usr/bin/ssh-add", file], env=env); create
\* returns sock_file after it.
KeyAdd(p) ==
    /\ proc[p].pc = "ssh-add"
    /\ \E rc \in KeyAddOutcomes(proc[p].sock_file) :
         LET r == Ran(proc[p], "ssh-add", rc, "ok")
             fatal == KeyAddFatal(rc)
         IN  /\ loaded' = IF rc = 0 THEN loaded \cup {<<r.sock_file, r.id_file>>} ELSE loaded
             /\ keyAddLog' = keyAddLog \cup {<<r.id_file, r.sock_file>>}
             /\ proc' = [proc EXCEPT ![p] =
                  IF fatal THEN Raised(r, "OSError", 1)
                  ELSE [r EXCEPT !.pc = "run_ssh", !.sock = r.sock_file]]
             /\ createdOk' = IF fatal THEN createdOk
                  ELSE createdOk \cup {<<r.id_file, r.sock_file>>}
    /\ UNCHANGED <<environ, fs, agents, started, agentBinds>>

\* run_ssh(sys.argv[1:], sock): os.execve replaces the process image, or raises.
RunSsh(p) ==
    /\ proc[p].pc = "run_ssh"
    /\ \E found \in BOOLEAN :
         LET r == Entered(proc[p], "exec-replace")
         IN  proc' = [proc EXCEPT ![p] =
                IF found
                THEN [r EXCEPT !.pc = "execd",
                               !.image = <<[argv |-> ssh_argv(r.argv),
                                            env |-> run_ssh_env(environ, r.sock)]>>]
                ELSE Raised(r, "OSError", 1)]
    /\ UNCHANGED <<environ, fs, agents, loaded, started, agentBinds, keyAddLog, createdOk>>

\* --------------------------------------------------------- specifications
\* The config files of a session: the path the session selects is absent, a
\* directory or a file; the other candidate holds a regular file.
ConfLayouts(env) ==
    { f \in [ConfPaths -> FileKinds] :
        f[IF "SSH_CONF_PATH" \in DOMAIN env THEN DefaultConf ELSE AltConf] = "file" }

Init ==
    /\ environ \in Environs
    /\ fs \in ConfLayouts(environ)
    /\ agents = {}
    /\ loaded = {}
    /\ proc = [p \in Procs |-> InitProc]
    /\ started = 0
    /\ agentBinds = [x \in {} |-> 0]
    /\ keyAddLog = {}
    /\ createdOk = {}

Next ==
    \E p \in Procs :
        \/ Invoke(p)
        \/ ParseArgs(p)
        \/ GetHost(p)
        \/ NewSSHKey(p)
        \/ PrintSocket(p)
        \/ Create(p)
        \/ StartAgent(p)
        \/ ListIdentities(p)
        \/ GetFingerprint(p)
        \/ KeyAdd(p)
        \/ RunSsh(p)

Spec == Init /\ [][Next]_vars

\* ------------------------------------------------ get_host on many inputs
SeqsUpTo(A, n) == UNION { [1..k -> A] : k \in 0..n }

BareHosts == SeqsUpTo({"h", "s"}, MaxHostLen) \ {<<>>}
Users == {<<"u">>, <<"s", "s", "h">>}
Ports == {<<"2">>, <<"2", "2">>}

\* The decorated forms of a bare host h with user u and port q.
Decorations(u, h, q) ==
    { u \o <<"@">> \o h \o <<":">> \o q, SCHEME \o h, u \o <<"@">> \o h, h \o <<":">> \o q, h }

HostInputs ==
    UNION { Decorations(u, h, q) : u \in Users, h \in BareHosts, q \in Ports }
    \cup SeqsUpTo({"h", "@", ":"}, MaxRawLen)

\* One invocation, already started, whose only argument is any host string.
InitHost ==
    /\ environ = [name \in {"HOME", "SSH_AUTH_SOCK", "XDG_RUNTIME_DIR"} |->
                    EnvValue(name, <<"run", "user", "1000">>)]
    /\ fs = [q \in ConfPaths |-> "file"]
    /\ agents = {}
    /\ loaded = {}
    /\ \E hn \in HostInputs :
         proc = [p \in Procs |->
                   IF p = 1 THEN [InitProc EXCEPT !.pc = "parse", !.argv = <<hn>>]
                   ELSE InitProc]
    /\ started = 1
    /\ agentBinds = [x \in {} |-> 0]
    /\ keyAddLog = {}
    /\ createdOk = {}

NextHost == ParseArgs(1) \/ GetHost(1)

SpecHost == InitHost /\ [][NextHost]_vars

\* =================================================================== claims

\* C8: get_host strips user@, then the literal ssh://, then :port: for every
\* bare host h, user u and port q, each of u@h:q, ssh://h, u@h, h:q and h
\* yields exactly h, the string handed to the config lookup.
C8_GetHostStripsDecorations ==
    \A p \in Procs :
        proc[p].pc = "SSHKey" =>
            \A u \in Users, h \in BareHosts, q \in Ports :
                proc[p].args.hostname \in Decorations(u, h, q) => proc[p].host = h

C8_Witness ==
    \E p \in Procs :
        /\ proc[p].pc = "SSHKey"
        /\ proc[p].args.hostname = <<"u", "@", "h", "s", ":", "2", "2">>
        /\ proc[p].host = <<"h", "s">>

\* The socket path the specification derives from an identity file.
ExpectedSock(file) == environ["XDG_RUNTIME_DIR"] \o <<Md5Hex(file), ".sock">>

KeysAt(s) == {f \in IdentityFiles : <<s, f>> \in loaded}

\* C1: every agent socket holds at most one identity file: ssh-add of P is
\* only run against the socket path derived from P, and distinct identity
\* files derive distinct socket paths.
C1_OneIdentityPerSocket ==
    /\ \A s \in agents : Cardinality(KeysAt(s)) <= 1
    /\ \A e \in keyAddLog : e[2] = ExpectedSock(e[1])
    /\ \A e1, e2 \in keyAddLog : e1[2] = e2[2] => e1[1] = e2[1]
    /\ \A f, g \in IdentityFiles :
         f # g => get_sock_path(environ, f) # get_sock_path(environ, g)

C1_Witness ==
    \E s1, s2 \in agents :
        /\ s1 # s2
        /\ KeysAt(s1) = {ID_A}
        /\ KeysAt(s2) = {ID_B}

HasRun(r, cmd) == \E i \in 1..Len(r.cmds) : r.cmds[i].cmd = cmd

\* C2: create is idempotent: a call made after a call for the same identity
\* returned finds the socket and the loaded fingerprint, starts no agent,
\* runs no key-add, and returns the same socket path.
C2_CreateIdempotent ==
    \A p \in Procs :
        proc[p].priorOk =>
            /\ ~HasRun(proc[p], "ssh-agent")
            /\ ~HasRun(proc[p], "ssh-add")
            /\ proc[p].pc \notin {"ssh-agent", "ssh-add"}
            /\ proc[p].sock_file \in agents
            /\ proc[p].pc \in {"run_ssh", "execd"} =>
                 /\ KeyFingerprint(proc[p].id_file) \in proc[p].out
                 /\ \A e \in createdOk : e[1] = proc[p].id_file => e[2] = proc[p].sock

C2_Witness ==
    \E p \in Procs :
        /\ proc[p].priorOk
        /\ proc[p].pc = "execd"
        /\ HasRun(proc[p], "ssh-add -l")

SameEnv(e1, e2) ==
    /\ DOMAIN e1 = DOMAIN e2
    /\ \A name \in DOMAIN e1 : e1[name] = e2[name]

\* C3: with no IdentityFile for the host, the login client is exec'd with a
\* copy of the process environment, SSH_AUTH_SOCK at its original value; with
\* a socket path, only SSH_AUTH_SOCK differs from the process environment.
C3_EnvironmentPassedOn ==
    \A p \in Procs :
        proc[p].pc = "execd" =>
            LET env == proc[p].image[1].env
            IN  IF proc[p].id_file = None
                THEN SameEnv(env, environ)
                ELSE /\ DOMAIN env = DOMAIN environ
                     /\ \A name \in DOMAIN environ \ {"SSH_AUTH_SOCK"} : env[name] = environ[name]

\* The config path the session selects, and what the config gives for the
\* host argument of an invocation.
SelectedConf ==
    IF "SSH_CONF_PATH" \in DOMAIN environ THEN environ["SSH_CONF_PATH"]
    ELSE environ["HOME"] \o <<".ssh", "config">>

ConfigMissing == fs[SelectedConf] # "file"

SocketGiven(r) == \E i \in 1..Len(r.argv) : r.argv[i] = SOCKET

NothingSpawned(r) == r.cmds = <<>> /\ r.image = <<>>

Done(r) == r.pc \in Terminal

Failed(c) == c.rc # 0 \/ c.output = "unexpected"

CountOf(r, cmd) == Cardinality({i \in 1..Len(r.cmds) : r.cmds[i].cmd = cmd})

ToolNames == {"ssh-agent", "ssh-add -l", "ssh-keygen", "ssh-add"}

AtMostOnceEach(r) == \A cmd \in ToolNames : CountOf(r, cmd) <= 1

\* C6 as stated: a failure of any of the four external tools aborts the
\* invocation with a nonzero status, each command runs at most once, and the
\* login client is never exec'd.
C6_EveryToolFailureFatal ==
    \A p \in Procs :
        LET r == proc[p]
        IN  /\ AtMostOnceEach(r)
            /\ \A i \in 1..Len(r.cmds) :
                 Failed(r.cmds[i]) =>
                     /\ r.pc = "raised"
                     /\ r.exit = <<1>>
                     /\ r.image = <<>>

\* C6 amended: a nonzero exit of agent-start, key-add or fingerprint, or
\* unparsable fingerprint output, aborts the invocation with a nonzero
\* status right there (no later command, no retry, no exec); each external
\* command runs at most once; the exit status of list-identities is not
\* looked at, and after it the invocation goes on to the fingerprint.
C6_CheckedToolFailuresFatal ==
    \A p \in Procs :
        LET r == proc[p]
        IN  /\ AtMostOnceEach(r)
            /\ \A i \in 1..Len(r.cmds) :
                 (Failed(r.cmds[i]) /\ r.cmds[i].cmd # "ssh-add -l") =>
                     /\ i = Len(r.cmds)
                     /\ r.pc = "raised"
                     /\ r.exit = <<1>>
                     /\ r.image = <<>>
            /\ (r.cmds # <<>> /\ r.cmds[Len(r.cmds)].cmd = "ssh-add -l") => r.pc = "ssh-keygen"

C6_Witness ==
    \E p \in Procs :
        LET r == proc[p]
        IN  /\ r.pc = "raised"
            /\ Len(r.cmds) = 4
            /\ r.cmds[2] = [cmd |-> "ssh-add -l", rc |-> 1, output |-> "ok"]
            /\ r.cmds[4] = [cmd |-> "ssh-add", rc |-> 1, output |-> "ok"]

\* C7: whenever run_ssh execs, the login client's argument vector is the
\* program path followed by the invocation's original arguments, in order,
\* unchanged; --socket is never among them.
C7_ArgumentsPassedThrough ==
    \A p \in Procs :
        proc[p].pc = "execd" =>
            LET a == proc[p].image[1].argv
            IN  /\ a[1] = SSH_BIN
                /\ Drop(a, 1) = proc[p].argv
                /\ \A i \in 1..Len(a) : a[i] # SOCKET

C7_Witness ==
    \E p \in Procs :
        /\ proc[p].pc = "execd"
        /\ proc[p].image[1].argv = <<SSH_BIN, FLAG_v, H_A, CMD>>

\* C9: the create race is benign: at most one agent is ever bound to a
\* socket path, an invocation whose agent start fails aborts with no retry,
\* no ssh-add and no exec, and a socket only ever holds the identity it is
\* derived from.
C9_CreateRaceBenign ==
    /\ \A s \in DOMAIN agentBinds : agentBinds[s] <= 1
    /\ \A p \in Procs :
         LET r == proc[p]
         IN  (\E i \in 1..Len(r.cmds) : r.cmds[i].cmd = "ssh-agent" /\ r.cmds[i].rc # 0) =>
                 /\ r.pc = "raised"
                 /\ Len(r.cmds) = 1
                 /\ r.image = <<>>
    /\ \A e \in loaded : e[1] = ExpectedSock(e[2])

\* Both invocations saw no socket, one bound it, the other's agent failed on
\* the bound path.
C9_Witness ==
    \E p, q \in Procs :
        /\ p # q
        /\ proc[p].sock_file = proc[q].sock_file
        /\ proc[p].steps = <<"parse-args", "resolve-hostname", "resolve-identity", "ensure-socket">>
        /\ proc[p].cmds # <<>>
        /\ proc[p].cmds[1] = [cmd |-> "ssh-agent", rc |-> 0, output |-> "ok"]
        /\ proc[q].cmds = <<[cmd |-> "ssh-agent", rc |-> 1, output |-> "ok"]>>
        /\ proc[q].pc = "raised"
        /\ proc[p].pc = "ssh-add"

IsPrefix(s, t) == Len(s) <= Len(t) /\ SubSeq(t, 1, Len(s)) = s

PrintRun == <<"parse-args", "resolve-hostname", "resolve-identity", "print-socket">>
ExecRun ==
    <<"parse-args", "resolve-hostname", "resolve-identity", "ensure-socket", "exec-replace">>

\* C10: an invocation is linear (parse-args, resolve-hostname,
\* resolve-identity, then print-socket or ensure-socket and exec-replace, no
\* step twice); the login client is exec'd only after create returned, and
\* when it is exec'd with SSH_AUTH_SOCK at a derived socket path, that socket
\* exists and the invocation saw the fingerprint loaded or its ssh-add exit 0.
C10_LinearAndEnsuredBeforeExec ==
    \A p \in Procs :
        LET r == proc[p]
        IN  /\ IsPrefix(r.steps, PrintRun) \/ IsPrefix(r.steps, ExecRun)
            /\ r.pc = "execd" => r.steps = ExecRun
            /\ r.pc = "returned" => r.steps = PrintRun
            /\ (r.pc = "execd" /\ r.id_file # None) =>
                 /\ r.image[1].env["SSH_AUTH_SOCK"] = ExpectedSock(r.id_file)
                 /\ ExpectedSock(r.id_file) \in agents
                 /\ \/ KeyFingerprint(r.id_file) \in r.out
                    \/ \E i \in 1..Len(r.cmds) : r.cmds[i].cmd = "ssh-add" /\ r.cmds[i].rc = 0
                 /\ \A i \in 1..Len(r.cmds) :
                      r.cmds[i].cmd # "ssh-add -l" => ~Failed(r.cmds[i])

C10_Witness ==
    \E p \in Procs :
        /\ proc[p].pc = "execd"
        /\ proc[p].id_file = ID_B
        /\ HasRun(proc[p], "ssh-agent")
        /\ HasRun(proc[p], "ssh-add")

====
